---- MODULE Spec2Model ----
(***************************************************************************)
(* Model of the AddonsHelper plugin (src/src/endstone_addons_helper/       *)
(* plugin.py): the installer pipeline (process_addon_files,                *)
(* process_mcaddon, process_mcpack), the world activation registry         *)
(* (activate and deactivate), the ledger store (enabled_packs and         *)
(* enable.json) and the removal commands.                                  *)
(*                                                                         *)
(* Strings that flow into the ledger (names, folder names, ids) are        *)
(* sequences of one-character strings, so that clean_string and            *)
(* clean_json_data can be modelled as the filters they are.                *)
(***************************************************************************)
EXTENDS Integers, Sequences, FiniteSets, TLC

\* ------------------------------------------------------------------ bounds
MaxDrops == 2
MaxRuns == 2
MaxCmds == 1
MaxFaults == 1

\* ----------------------------------------------------------------- strings
\* One character that cannot be encoded as UTF-8 (a lone surrogate).
Surrogate == "^"

Encodable(c) == c # Surrogate

\* text.encode('utf-8', errors='ignore').decode('utf-8')
clean_string(text) == SelectSeq(text, Encodable)

Digits == <<"0", "1", "2", "3", "4", "5", "6", "7", "8", "9">>

IsDigit(c) == \E i \in 1..Len(Digits) : Digits[i] = c

DigitVal(c) == (CHOOSE i \in 1..Len(Digits) : Digits[i] = c) - 1

RECURSIVE DecVal(_)
DecVal(s) == IF s = <<>> THEN 0
             ELSE 10 * DecVal(SubSeq(s, 1, Len(s) - 1)) + DigitVal(s[Len(s)])

\* int(s): an optional sign followed by at least one decimal digit,
\* anything else raises ValueError (ok = FALSE).
int(s) ==
  LET signed == s # <<>> /\ s[1] \in {"-", "+"}
      body == IF signed THEN Tail(s) ELSE s
      wellFormed == body # <<>> /\ \A i \in 1..Len(body) : IsDigit(body[i])
  IN IF ~wellFormed THEN [ok |-> FALSE, val |-> 0]
     ELSE [ok |-> TRUE,
           val |-> IF signed /\ s[1] = "-" THEN 0 - DecVal(body) ELSE DecVal(body)]

\* --------------------------------------------------------------- manifests
\* A manifest.json file: parse says whether it is readable JSON, has names
\* the fields it declares.
Manifest(parse, has, name, uuid, version, mtype) ==
  [parse |-> parse, has |-> has, name |-> name, uuid |-> uuid,
   version |-> version, mtype |-> mtype]

DefaultVersion == <<1, 0, 0>>

\* read_manifest: {} (falsy, ok = FALSE) on any failure, else the header
\* fields with their defaults and the first module's type.
read_manifest(m) ==
  IF ~m.parse
  THEN [ok |-> FALSE, name |-> <<>>, uuid |-> <<>>, version |-> DefaultVersion,
        type |-> "unknown"]
  ELSE [ok |-> TRUE,
        name |-> IF "name" \in m.has THEN m.name ELSE <<>>,
        uuid |-> IF "uuid" \in m.has THEN m.uuid ELSE <<>>,
        version |-> IF "version" \in m.has THEN m.version ELSE DefaultVersion,
        type |-> IF "type" \in m.has THEN m.mtype ELSE "unknown"]

\* ------------------------------------------------------- directory trees
\* A directory: man is the set (empty or singleton) holding its
\* manifest.json, files its other files as <<name, origin>> pairs, subs its
\* immediate subdirectories as [name, man, files] records.
EmptyTree == [man |-> {}, files |-> {}, subs |-> {}]

MergeFiles(old, new) ==
  new \cup {e \in old : \A n \in new : n[1] # e[1]}

MergeMan(old, new) == IF new # {} THEN new ELSE old

MergeSubs(old, new) ==
  {o \in old : \A n \in new : n.name # o.name}
  \cup {[name |-> n.name,
         man |-> IF \E o \in old : o.name = n.name
                 THEN MergeMan((CHOOSE o \in old : o.name = n.name).man, n.man)
                 ELSE n.man,
         files |-> IF \E o \in old : o.name = n.name
                   THEN MergeFiles((CHOOSE o \in old : o.name = n.name).files, n.files)
                   ELSE n.files] : n \in new}

\* Writing the tree new over the tree old: files of the same relative path
\* are overwritten, all others are kept (ZipFile.extractall into an existing
\* directory, shutil.copytree(..., dirs_exist_ok=True)).
MergeTree(old, new) ==
  [man |-> MergeMan(old.man, new.man),
   files |-> MergeFiles(old.files, new.files),
   subs |-> MergeSubs(old.subs, new.subs)]

\* A partial function (directory listing): set, get, delete.
Put(f, k, v) == [x \in DOMAIN f \cup {k} |-> IF x = k THEN v ELSE f[x]]

Del(f, k) == [x \in DOMAIN f \ {k} |-> f[x]]

NoDirs == [x \in {} |-> EmptyTree]

\* temp_dir.mkdir(parents=True, exist_ok=True)
mkdir(dirs, k) == IF k \in DOMAIN dirs THEN dirs ELSE Put(dirs, k, EmptyTree)

\* zip_ref.extractall(temp_dir)
extractall(dirs, k, tree) == Put(dirs, k, MergeTree(dirs[k], tree))

\* shutil.copytree(src, target_dir, dirs_exist_ok=True)
copytree(dirs, k, tree) ==
  Put(dirs, k, MergeTree(IF k \in DOMAIN dirs THEN dirs[k] ELSE EmptyTree, tree))

SubTree(sub) == [man |-> sub.man, files |-> sub.files, subs |-> {}]

\* ------------------------------------------- world activation registry
\* An activation file: absent, unparsable ("corrupt") or a JSON list of
\* [pack_id, version] entries ("ok").
AbsentFile == [st |-> "absent", list |-> <<>>]

CorruptFile == [st |-> "corrupt", list |-> <<>>]

ListFile(l) == [st |-> "ok", list |-> l]

HasId(config, pack_uuid) == \E i \in 1..Len(config) : config[i].pack_id = pack_uuid

\* Writing a file: w = "none" succeeds, "open" fails before the file is
\* touched, "dump" fails after open(..., 'w') truncated it.
WriteFaults == {"none", "open", "dump"}

\* Mutant of activate_behavior_pack: a repeat activation stores the new
\* version.
activate_behavior_pack_newest(t, pack_uuid, pack_version, w) ==
  IF t.st = "corrupt" THEN t
  ELSE LET config == IF t.st = "ok" THEN t.list ELSE <<>>
           pack_entry == [pack_id |-> pack_uuid, version |-> pack_version]
       IN IF HasId(config, pack_uuid)
          THEN ListFile([i \in 1..Len(config) |->
                           IF config[i].pack_id = pack_uuid THEN pack_entry
                           ELSE config[i]])
          ELSE IF w = "open" THEN t
          ELSE IF w = "dump" THEN CorruptFile
          ELSE ListFile(Append(config, pack_entry))

\* activate_behavior_pack: json.load of an unparsable file raises and the
\* except clause only logs; an absent file reads as []; a new id is appended
\* and the list written back; a known id writes nothing.
activate_behavior_pack(t, pack_uuid, pack_version, w) ==
  IF t.st = "corrupt" THEN t
  ELSE LET config == IF t.st = "ok" THEN t.list ELSE <<>>
           pack_entry == [pack_id |-> pack_uuid, version |-> pack_version]
       IN IF HasId(config, pack_uuid) THEN t
          ELSE IF w = "open" THEN t
          ELSE IF w = "dump" THEN CorruptFile
          ELSE ListFile(Append(config, pack_entry))

\* Mutant of activate_resource_pack: the entry is appended without looking
\* for the id.
activate_resource_pack_always(t, pack_uuid, pack_version, w) ==
  IF t.st = "corrupt" THEN t
  ELSE LET config == IF t.st = "ok" THEN t.list ELSE <<>>
           pack_entry == [pack_id |-> pack_uuid, version |-> pack_version]
       IN IF w = "open" THEN t
          ELSE IF w = "dump" THEN CorruptFile
          ELSE ListFile(Append(config, pack_entry))

activate_resource_pack(t, pack_uuid, pack_version, w) ==
  IF t.st = "corrupt" THEN t
  ELSE LET config == IF t.st = "ok" THEN t.list ELSE <<>>
           pack_entry == [pack_id |-> pack_uuid, version |-> pack_version]
       IN IF HasId(config, pack_uuid) THEN t
          ELSE IF w = "open" THEN t
          ELSE IF w = "dump" THEN CorruptFile
          ELSE ListFile(Append(config, pack_entry))

KeepOthers(config, pack_uuid) ==
  LET Other(pack) == pack.pack_id # pack_uuid IN SelectSeq(config, Other)

\* Mutant of deactivate_behavior_pack: only the first matching entry is
\* dropped.
deactivate_behavior_pack_first(t, pack_uuid, w) ==
  LET first == CHOOSE i \in 1..Len(t.list) :
                 /\ t.list[i].pack_id = pack_uuid
                 /\ \A j \in 1..(i - 1) : t.list[j].pack_id # pack_uuid
  IN IF t.st # "ok" THEN t
     ELSE IF w = "open" THEN t
     ELSE IF w = "dump" THEN CorruptFile
     ELSE IF ~HasId(t.list, pack_uuid) THEN t
     ELSE ListFile(SubSeq(t.list, 1, first - 1)
                   \o SubSeq(t.list, first + 1, Len(t.list)))

\* deactivate_behavior_pack: nothing when the file does not exist; an
\* unparsable file raises (logged); otherwise the filtered list is written
\* back unconditionally.
deactivate_behavior_pack(t, pack_uuid, w) ==
  IF t.st # "ok" THEN t
  ELSE IF w = "open" THEN t
  ELSE IF w = "dump" THEN CorruptFile
  ELSE ListFile(KeepOthers(t.list, pack_uuid))

\* Mutant of deactivate_resource_pack: the whole list is dropped.
deactivate_resource_pack_clear(t, pack_uuid, w) ==
  IF t.st # "ok" THEN t
  ELSE IF w = "open" THEN t
  ELSE IF w = "dump" THEN CorruptFile
  ELSE ListFile(<<>>)

deactivate_resource_pack(t, pack_uuid, w) ==
  IF t.st # "ok" THEN t
  ELSE IF w = "open" THEN t
  ELSE IF w = "dump" THEN CorruptFile
  ELSE ListFile(KeepOthers(t.list, pack_uuid))

\* ------------------------------------------------------------ ledger store
EmptyLedger == [addons |-> <<>>, packs |-> <<>>]

AbsentLedger == [st |-> "absent", data |-> EmptyLedger]

CorruptLedger == [st |-> "corrupt", data |-> EmptyLedger]

\* Mutant of CleanEntry: the strings are reduced to their ASCII characters.
CleanEntry_ascii(e) ==
  LET Ascii(c) == c \notin {Surrogate, "é"}
  IN [k \in DOMAIN e |-> IF k = "type" THEN e[k] ELSE SelectSeq(e[k], Ascii)]

\* clean_json_data on one ledger entry: every string value is cleaned; the
\* "type" values are the literals "addon", "behavior", "resource" and "",
\* which cleaning leaves alone.
CleanEntry(e) ==
  [k \in DOMAIN e |-> IF k = "type" THEN e[k] ELSE clean_string(e[k])]

CleanList(l) == [i \in 1..Len(l) |-> CleanEntry(l[i])]

clean_json_data(data) ==
  [addons |-> CleanList(data.addons), packs |-> CleanList(data.packs)]

\* save_enable_json: the cleaned data overwrites enable.json; a failure is
\* logged and swallowed.
save_enable_json(data, file, w) ==
  IF w = "open" THEN file
  ELSE IF w = "dump" THEN CorruptLedger
  ELSE [st |-> "ok", data |-> clean_json_data(data)]

\* load_enable_json: the persisted ledger, or the empty one when the file
\* is absent or unparsable.
load_enable_json(file) == IF file.st = "ok" THEN file.data ELSE EmptyLedger

\* ------------------------------------------------------ installer pipeline
\* The operators below take the file system and the in-memory ledger as a
\* record S (staging, scratch, bp, rp, actB, actR, mem, file) and return
\* [S, raised]: the state the call leaves behind and whether control left it
\* through its except clause.
\*
\* flt names the I/O faults met while one archive is processed:
\*   extract  ZipFile(...) / extractall raises
\*   copyAt   the n-th copytree of this archive raises (0: none)
\*   act      outcome of the activation-file writes
\*   save     outcome of the enable.json write
\*   rmtree   rmtree(temp_dir, ignore_errors=True) removes nothing
\*   unlink   deleting the archive raises
CopyPositions == {1, 2}

NoInstallFault ==
  [extract |-> FALSE, copyAt |-> 0, act |-> "none", save |-> "none",
   rmtree |-> FALSE, unlink |-> FALSE]

\* stage: the call that raised ("none" when the handler returned normally);
\* save: the outcome of the enable.json write ("skipped" when not reached).
\* One archive meets at most one fault.
InstallFaults ==
  {NoInstallFault}
  \cup {[NoInstallFault EXCEPT !.extract = TRUE],
        [NoInstallFault EXCEPT !.rmtree = TRUE],
        [NoInstallFault EXCEPT !.unlink = TRUE]}
  \cup {[NoInstallFault EXCEPT !.copyAt = n] : n \in CopyPositions}
  \cup {[NoInstallFault EXCEPT !.act = w] : w \in WriteFaults}
  \cup {[NoInstallFault EXCEPT !.save = w] : w \in WriteFaults}

Raised(S, stage, save) == [S |-> S, raised |-> TRUE, stage |-> stage, save |-> save]

Returned(S, save) == [S |-> S, raised |-> FALSE, stage |-> "none", save |-> save]

TheManifest(dir) == CHOOSE m \in dir.man : TRUE

\* Lines 503-508 (and 438-443): clean the scratch directory, delete the
\* archive.
CleanUp(S, a, flt, save) ==
  LET S1 == IF flt.rmtree THEN S ELSE [S EXCEPT !.scratch = Del(@, a.stem)]
  IN IF flt.unlink THEN Raised(S1, "unlink", save)
     ELSE Returned([S1 EXCEPT !.staging = @ \ {a}], save)

\* Mutant of process_mcpack: a failed copy is swallowed and the cleanup that
\* deletes the archive still runs.
process_mcpack_copy_swallowed(S, a, flt) ==
  LET S1 == [S EXCEPT !.scratch = mkdir(@, a.stem)]
  IN IF flt.extract THEN Raised(S1, "extract", "skipped")
     ELSE
       LET S2 == [S1 EXCEPT !.scratch = extractall(@, a.stem, a.root)]
           temp_dir == S2.scratch[a.stem]
           pack_info == read_manifest(TheManifest(temp_dir))
           pack_type == pack_info.type
           pack_name == clean_string(pack_info.name)
           pack_uuid == pack_info.uuid
           pack_version == pack_info.version
           pack_record ==
             [name |-> pack_name, folder |-> a.stem, uuid |-> pack_uuid,
              type |-> IF pack_type = "data" THEN "behavior"
                       ELSE IF pack_type = "resources" THEN "resource" ELSE ""]
           S3 == IF pack_type = "data"
                 THEN [S2 EXCEPT
                         !.bp = copytree(@, a.stem, temp_dir),
                         !.actB = activate_behavior_pack(@, pack_uuid,
                                                         pack_version, flt.act)]
                 ELSE IF pack_type = "resources"
                 THEN [S2 EXCEPT
                         !.rp = copytree(@, a.stem, temp_dir),
                         !.actR = activate_resource_pack(@, pack_uuid,
                                                         pack_version, flt.act)]
                 ELSE S2
           packs == [S3.mem EXCEPT !.packs = Append(@, pack_record)]
           S4 == [S3 EXCEPT !.mem = packs,
                            !.file = save_enable_json(packs, @, flt.save)]
       IN IF temp_dir.man # {} /\ pack_info.ok
          THEN IF pack_type \in {"data", "resources"} /\ flt.copyAt = 1
               THEN CleanUp(S2, a, flt, "skipped")
               ELSE CleanUp(S4, a, flt, flt.save)
          ELSE CleanUp(S2, a, flt, "skipped")

process_mcpack(S, a, flt) ==
  LET S1 == [S EXCEPT !.scratch = mkdir(@, a.stem)]
  IN IF flt.extract THEN Raised(S1, "extract", "skipped")
     ELSE
       LET S2 == [S1 EXCEPT !.scratch = extractall(@, a.stem, a.root)]
           temp_dir == S2.scratch[a.stem]
           pack_info == read_manifest(TheManifest(temp_dir))
           pack_type == pack_info.type
           pack_name == clean_string(pack_info.name)
           pack_uuid == pack_info.uuid
           pack_version == pack_info.version
           pack_record ==
             [name |-> pack_name, folder |-> a.stem, uuid |-> pack_uuid,
              type |-> IF pack_type = "data" THEN "behavior"
                       ELSE IF pack_type = "resources" THEN "resource" ELSE ""]
           S3 == IF pack_type = "data"
                 THEN [S2 EXCEPT
                         !.bp = copytree(@, a.stem, temp_dir),
                         !.actB = activate_behavior_pack(@, pack_uuid,
                                                         pack_version, flt.act)]
                 ELSE IF pack_type = "resources"
                 THEN [S2 EXCEPT
                         !.rp = copytree(@, a.stem, temp_dir),
                         !.actR = activate_resource_pack(@, pack_uuid,
                                                         pack_version, flt.act)]
                 ELSE S2
           packs == [S3.mem EXCEPT !.packs = Append(@, pack_record)]
           S4 == [S3 EXCEPT !.mem = packs,
                            !.file = save_enable_json(packs, @, flt.save)]
       IN IF temp_dir.man # {} /\ pack_info.ok
          THEN IF pack_type \in {"data", "resources"} /\ flt.copyAt = 1
               THEN Raised(S2, "copy", "skipped")
               ELSE CleanUp(S4, a, flt, flt.save)
          ELSE CleanUp(S2, a, flt, "skipped")

\* Mutant of VisitItem: a resource pack is recorded by its folder only.
VisitItem_no_uuid(item, acc, flt) ==
  IF item.man = {} THEN acc
  ELSE
    LET pack_info == read_manifest(TheManifest(item))
        pack_type == pack_info.type
        pack_name == clean_string(pack_info.name)
        pack_uuid == pack_info.uuid
        pack_version == pack_info.version
        rec == acc.addon_record
    IN IF ~pack_info.ok THEN acc
       ELSE IF pack_type = "data"
       THEN IF flt.copyAt = acc.copies + 1 THEN [acc EXCEPT !.raised = TRUE]
            ELSE [acc EXCEPT
                    !.copies = @ + 1,
                    !.S = [@ EXCEPT
                             !.bp = copytree(@, item.name, SubTree(item)),
                             !.actB = activate_behavior_pack(@, pack_uuid,
                                                   pack_version, flt.act)],
                    !.addon_record =
                      Put(Put(Put(rec, "behavior_folder", item.name),
                              "behavior_uuid", pack_uuid),
                          "name", pack_name)]
       ELSE IF pack_type = "resources"
       THEN IF flt.copyAt = acc.copies + 1 THEN [acc EXCEPT !.raised = TRUE]
            ELSE [acc EXCEPT
                    !.copies = @ + 1,
                    !.S = [@ EXCEPT
                             !.rp = copytree(@, item.name, SubTree(item)),
                             !.actR = activate_resource_pack(@, pack_uuid,
                                                   pack_version, flt.act)],
                    !.addon_record =
                      LET r2 == Put(rec, "resource_folder", item.name)
                      IN IF "name" \notin DOMAIN r2
                         THEN Put(r2, "name", pack_name) ELSE r2]
       ELSE acc

\* One iteration of the loop over temp_dir.iterdir() (lines 394-432).
\* acc = [S, addon_record, copies, raised].
VisitItem(item, acc, flt) ==
  IF item.man = {} THEN acc
  ELSE
    LET pack_info == read_manifest(TheManifest(item))
        pack_type == pack_info.type
        pack_name == clean_string(pack_info.name)
        pack_uuid == pack_info.uuid
        pack_version == pack_info.version
        rec == acc.addon_record
    IN IF ~pack_info.ok THEN acc
       ELSE IF pack_type = "data"
       THEN IF flt.copyAt = acc.copies + 1 THEN [acc EXCEPT !.raised = TRUE]
            ELSE [acc EXCEPT
                    !.copies = @ + 1,
                    !.S = [@ EXCEPT
                             !.bp = copytree(@, item.name, SubTree(item)),
                             !.actB = activate_behavior_pack(@, pack_uuid,
                                                   pack_version, flt.act)],
                    !.addon_record =
                      Put(Put(Put(rec, "behavior_folder", item.name),
                              "behavior_uuid", pack_uuid),
                          "name", pack_name)]
       ELSE IF pack_type = "resources"
       THEN IF flt.copyAt = acc.copies + 1 THEN [acc EXCEPT !.raised = TRUE]
            ELSE [acc EXCEPT
                    !.copies = @ + 1,
                    !.S = [@ EXCEPT
                             !.rp = copytree(@, item.name, SubTree(item)),
                             !.actR = activate_resource_pack(@, pack_uuid,
                                                   pack_version, flt.act)],
                    !.addon_record =
                      LET r2 == Put(Put(rec, "resource_folder", item.name),
                                    "resource_uuid", pack_uuid)
                      IN IF "name" \notin DOMAIN r2
                         THEN Put(r2, "name", pack_name) ELSE r2]
       ELSE acc

RECURSIVE VisitItems(_, _, _)
VisitItems(order, acc, flt) ==
  IF order = <<>> \/ acc.raised THEN acc
  ELSE VisitItems(Tail(order), VisitItem(Head(order), acc, flt), flt)

\* Mutant of process_mcaddon: a failed save of the ledger aborts the
\* archive.
process_mcaddon_save_aborts(S, a, flt, order) ==
  LET S1 == [S EXCEPT !.scratch = mkdir(@, a.stem)]
  IN IF flt.extract THEN Raised(S1, "extract", "skipped")
     ELSE
       LET S2 == [S1 EXCEPT !.scratch = extractall(@, a.stem, a.root)]
           addon_record == [name |-> a.stem, type |-> "addon"]
           acc == VisitItems(order,
                             [S |-> S2, addon_record |-> addon_record,
                              copies |-> 0, raised |-> FALSE], flt)
           addons == [acc.S.mem EXCEPT !.addons = Append(@, acc.addon_record)]
           S4 == [acc.S EXCEPT !.mem = addons,
                               !.file = save_enable_json(addons, @, flt.save)]
       IN IF acc.raised THEN Raised(acc.S, "copy", "skipped")
          ELSE IF flt.save # "none" THEN Raised(S4, "save", flt.save)
          ELSE CleanUp(S4, a, flt, flt.save)

\* order: the order in which temp_dir.iterdir() yields the subdirectories.
process_mcaddon(S, a, flt, order) ==
  LET S1 == [S EXCEPT !.scratch = mkdir(@, a.stem)]
  IN IF flt.extract THEN Raised(S1, "extract", "skipped")
     ELSE
       LET S2 == [S1 EXCEPT !.scratch = extractall(@, a.stem, a.root)]
           addon_record == [name |-> a.stem, type |-> "addon"]
           acc == VisitItems(order,
                             [S |-> S2, addon_record |-> addon_record,
                              copies |-> 0, raised |-> FALSE], flt)
           addons == [acc.S.mem EXCEPT !.addons = Append(@, acc.addon_record)]
           S4 == [acc.S EXCEPT !.mem = addons,
                               !.file = save_enable_json(addons, @, flt.save)]
       IN IF acc.raised THEN Raised(acc.S, "copy", "skipped")
          ELSE CleanUp(S4, a, flt, flt.save)

\* The subdirectories iterdir() finds once the archive is extracted.
ExtractedItems(S, a) ==
  extractall(mkdir(S.scratch, a.stem), a.stem, a.root)[a.stem].subs

Orders(items) ==
  {o \in [1..Cardinality(items) -> items] :
     \A i, j \in 1..Cardinality(items) : o[i] = o[j] => i = j}

\* -------------------------------------------------------- removal pipeline
\* rmtree names the shutil.rmtree call that raises ("none", "behavior",
\* "resource"); act and save are the outcomes of the file writes.
NoRemoveFault == [rmtree |-> "none", act |-> "none", save |-> "none"]

\* One removal meets at most one fault.
RemoveFaults ==
  {NoRemoveFault}
  \cup {[NoRemoveFault EXCEPT !.rmtree = d] : d \in {"behavior", "resource"}}
  \cup {[NoRemoveFault EXCEPT !.act = w] : w \in WriteFaults}
  \cup {[NoRemoveFault EXCEPT !.save = w] : w \in WriteFaults}

\* list.remove(x): drops the first element equal to x.
RECURSIVE ListRemove(_, _)
ListRemove(l, x) ==
  IF l = <<>> THEN <<>>
  ELSE IF Head(l) = x THEN Tail(l)
  ELSE <<Head(l)>> \o ListRemove(Tail(l), x)

\* Lines 253-260 and 282-289: delete the behaviour folder, deactivate the id.
RemoveBehavior(S, folder, uuid, flt) ==
  IF folder \in DOMAIN S.bp /\ flt.rmtree = "behavior"
  THEN Raised(S, "rmtree", "skipped")
  ELSE Returned([S EXCEPT
                   !.bp = IF folder \in DOMAIN @ THEN Del(@, folder) ELSE @,
                   !.actB = deactivate_behavior_pack(@, uuid, flt.act)],
                "skipped")

\* Lines 262-269 and 291-298: the same for the resource folder.
RemoveResource(S, folder, uuid, flt) ==
  IF folder \in DOMAIN S.rp /\ flt.rmtree = "resource"
  THEN Raised(S, "rmtree", "skipped")
  ELSE Returned([S EXCEPT
                   !.rp = IF folder \in DOMAIN @ THEN Del(@, folder) ELSE @,
                   !.actR = deactivate_resource_pack(@, uuid, flt.act)],
                "skipped")

remove_addon(S, addon, flt) ==
  LET r1 == IF "behavior_folder" \in DOMAIN addon
            THEN RemoveBehavior(S, addon.behavior_folder, addon.behavior_uuid, flt)
            ELSE Returned(S, "skipped")
      r2 == IF "resource_folder" \in DOMAIN addon
            THEN RemoveResource(r1.S, addon.resource_folder, addon.resource_uuid, flt)
            ELSE r1
      addons == [r2.S.mem EXCEPT !.addons = ListRemove(@, addon)]
  IN IF r1.raised THEN r1
     ELSE IF r2.raised THEN r2
     ELSE Returned([r2.S EXCEPT !.mem = addons,
                                !.file = save_enable_json(addons, @, flt.save)],
                   flt.save)

remove_pack(S, pack, flt) ==
  LET r1 == IF pack.type = "behavior"
            THEN RemoveBehavior(S, pack.folder, pack.uuid, flt)
            ELSE IF pack.type = "resource"
            THEN RemoveResource(S, pack.folder, pack.uuid, flt)
            ELSE Returned(S, "skipped")
      packs == [r1.S.mem EXCEPT !.packs = ListRemove(@, pack)]
  IN IF r1.raised THEN r1
     ELSE Returned([r1.S EXCEPT !.mem = packs,
                                !.file = save_enable_json(packs, @, flt.save)],
                   flt.save)

\* Messages sent to the command sender.
Msg(text, name) == [text |-> text, name |-> name]

\* One line of /addonlist or /packlist: f"{i}. {name}".
ItemMsg(i, name) == [text |-> "item", name |-> name, index |-> i]

ListItems(l) == [i \in 1..Len(l) |-> ItemMsg(i, l[i].name)]

\* Mutant of handle_addon_list: the lines are numbered from 0.
handle_addon_list_from_zero(S) ==
  IF S.mem.addons = <<>> THEN <<Msg("no_addons", <<>>)>>
  ELSE <<Msg("addon_list", <<>>)>>
       \o [i \in 1..Len(S.mem.addons) |-> ItemMsg(i - 1, S.mem.addons[i].name)]

\* /addonlist: the messages sent.
handle_addon_list(S) ==
  IF S.mem.addons = <<>> THEN <<Msg("no_addons", <<>>)>>
  ELSE <<Msg("addon_list", <<>>)>> \o ListItems(S.mem.addons)

\* /packlist: the messages sent.
handle_pack_list(S) ==
  IF S.mem.packs = <<>> THEN <<Msg("no_packs", <<>>)>>
  ELSE <<Msg("pack_list", <<>>)>> \o ListItems(S.mem.packs)

\* The result of a command handler: the state it leaves, the messages it
\* sent, whether remove_* left through its except clause, and the 0-based
\* index it acted on (-1: none).
Handled(S, m, r, index) ==
  [S |-> S, sent |-> <<m>>, raised |-> r.raised, stage |-> r.stage,
   save |-> r.save, index |-> index]

\* Mutant of handle_dele_addon: the argument is taken as a 0-based index.
handle_dele_addon_zero_based(S, args, flt) ==
  LET parsed == int(args[1])
      index == parsed.val
      addon == S.mem.addons[index + 1]
      r == remove_addon(S, addon, flt)
  IN IF args = <<>>
     THEN Handled(S, Msg("specify_index", <<>>), Returned(S, "skipped"), -1)
     ELSE IF ~parsed.ok
     THEN Handled(S, Msg("not_a_number", <<>>), Returned(S, "skipped"), -1)
     ELSE IF 0 <= index /\ index < Len(S.mem.addons)
     THEN Handled(r.S, Msg("deleted", addon.name), r, index)
     ELSE Handled(S, Msg("invalid_index", <<>>), Returned(S, "skipped"), -1)

handle_dele_addon(S, args, flt) ==
  LET parsed == int(args[1])
      index == parsed.val - 1
      addon == S.mem.addons[index + 1]
      r == remove_addon(S, addon, flt)
  IN IF args = <<>>
     THEN Handled(S, Msg("specify_index", <<>>), Returned(S, "skipped"), -1)
     ELSE IF ~parsed.ok
     THEN Handled(S, Msg("not_a_number", <<>>), Returned(S, "skipped"), -1)
     ELSE IF 0 <= index /\ index < Len(S.mem.addons)
     THEN Handled(r.S, Msg("deleted", addon.name), r, index)
     ELSE Handled(S, Msg("invalid_index", <<>>), Returned(S, "skipped"), -1)

handle_dele_pack(S, args, flt) ==
  LET parsed == int(args[1])
      index == parsed.val - 1
      pack == S.mem.packs[index + 1]
      r == remove_pack(S, pack, flt)
  IN IF args = <<>>
     THEN Handled(S, Msg("specify_index", <<>>), Returned(S, "skipped"), -1)
     ELSE IF ~parsed.ok
     THEN Handled(S, Msg("not_a_number", <<>>), Returned(S, "skipped"), -1)
     ELSE IF 0 <= index /\ index < Len(S.mem.packs)
     THEN Handled(r.S, Msg("deleted", pack.name), r, index)
     ELSE Handled(S, Msg("invalid_index", <<>>), Returned(S, "skipped"), -1)

\* ---------------------------------------------------------------- archives
sF == <<"F">>

sG == <<"G">>

AllFields == {"name", "uuid", "version", "type"}

Pack(id, stem, man) ==
  [id |-> id, stem |-> stem, ext |-> "mcpack",
   root |-> [man |-> man, files |-> {<<"data", id>>}, subs |-> {}]]

Sub(id, name, man) == [name |-> name, man |-> man, files |-> {<<"data", id>>}]

Addon(id, stem, subs) ==
  [id |-> id, stem |-> stem, ext |-> "mcaddon",
   root |-> [man |-> {}, files |-> {<<"readme", id>>}, subs |-> subs]]

\* The archives an operator may drop into the staging directory.
P1 == Pack("P1", sF, {Manifest(TRUE, AllFields, <<"a">>, <<"1">>, <<1, 2, 0>>, "data")})

P3 == Pack("P3", sG, {Manifest(TRUE, AllFields \ {"version"}, <<"a", Surrogate>>,
                               <<"2">>, <<0, 0, 0>>, "resources")})

P4 == Pack("P4", sF, {Manifest(TRUE, AllFields, <<"c">>, <<"3">>, <<1, 0, 0>>, "skin_pack")})

P5 == Pack("P5", sG, {})

P6 == Pack("P6", sG, {Manifest(FALSE, {}, <<>>, <<>>, <<0, 0, 0>>, "")})

A1 == Addon("A1", sF,
            {Sub("A1", <<"B">>, {Manifest(TRUE, AllFields, <<"a">>, <<"1">>, <<2, 0, 0>>, "data")}),
             Sub("A1", <<"R">>, {Manifest(TRUE, AllFields, <<"b">>, <<"2">>, <<3, 0, 0>>, "resources")})})

A3 == Addon("A3", sG,
            {Sub("A3", <<"R">>, {Manifest(TRUE, AllFields, <<"b">>, <<"2">>, <<1, 0, 0>>, "resources")}),
             Sub("A3", <<"S">>, {Manifest(TRUE, AllFields, <<"c">>, <<"3">>, <<1, 0, 0>>, "resources")})})

A2 == Addon("A2", sF,
            {Sub("A2", <<"Q">>, {Manifest(TRUE, AllFields, <<"c">>, <<"3">>, <<1, 0, 0>>, "resources")})})

Archives == {P1, P3, P4, P5, P6, A1, A2}

FileName(a) == <<a.stem, a.ext>>

\* The argument lists an operator may give to a removal command.
ArgLists ==
  {<<>>, << <<"0">> >>, << <<"1">> >>, << <<"2">> >>, << <<"3">> >>,
   << <<"-", "1">> >>, << <<"1", "x">> >>, << <<"0", "1">>, <<"x">> >>}

\* The argument lists that name the first or the second entry.
IndexArgs == {<< <<"1">> >>, << <<"2">> >>}

\* ------------------------------------------------------------------- state
VARIABLES
  staging,               \* archives in plugins/addonshelper
  scratch,               \* plugins/addonshelper/temp: stem -> tree
  behavior_packs,        \* behavior_packs: folder -> tree
  resource_packs,        \* resource_packs: folder -> tree
  world_behavior_packs,  \* worlds/<world>/world_behavior_packs.json
  world_resource_packs,  \* worlds/<world>/world_resource_packs.json
  enabled_packs,         \* self.enabled_packs
  enable_json,           \* .cache/enable.json
  pc,                    \* "idle", or "run" inside process_addon_files
  queue,                 \* file names process_addon_files has yet to process
  run,                   \* what the current (or last) installer run has done
  sent,                  \* messages of the last command to its sender
  last,                  \* the last handler or loop iteration executed
  drops, runs, cmds,     \* number of archives dropped, runs started, removals
  faults                 \* number of I/O faults met so far

vars ==
  <<staging, scratch, behavior_packs, resource_packs, world_behavior_packs,
    world_resource_packs, enabled_packs, enable_json, pc, queue, run, sent,
    last, drops, runs, cmds, faults>>

Cur ==
  [staging |-> staging, scratch |-> scratch, bp |-> behavior_packs,
   rp |-> resource_packs, actB |-> world_behavior_packs,
   actR |-> world_resource_packs, mem |-> enabled_packs, file |-> enable_json]

Becomes(S) ==
  /\ staging' = S.staging
  /\ scratch' = S.scratch
  /\ behavior_packs' = S.bp
  /\ resource_packs' = S.rp
  /\ world_behavior_packs' = S.actB
  /\ world_resource_packs' = S.actR
  /\ enabled_packs' = S.mem
  /\ enable_json' = S.file

\* last: op names the handler, name and arch the archive it processed,
\* clean that no fault was met, raised that the except clause was entered,
\* stage where ("extract", "copy", "unlink", "rmtree"), save the outcome of
\* the enable.json write, args and index the arguments of a removal command
\* and the 0-based index it acted on.
Last(op, name, arch, clean, raised, stage, save, args, index) ==
  [op |-> op, name |-> name, arch |-> arch, clean |-> clean,
   raised |-> raised, stage |-> stage, save |-> save, args |-> args,
   index |-> index]

NoName == <<>>

NoRun == [trigger |-> "none", discovered |-> {}, attempted |-> {},
          failed |-> {}, warnings |-> 0]

\* A world directory the game server may already have written to.
InitialTables == {AbsentFile}

Init ==
  /\ staging = {}
  /\ scratch = NoDirs
  /\ behavior_packs = NoDirs
  /\ resource_packs = NoDirs
  /\ world_behavior_packs \in InitialTables
  /\ world_resource_packs \in InitialTables
  /\ enabled_packs = EmptyLedger
  /\ enable_json = AbsentLedger
  /\ pc = "idle"
  /\ queue = <<>>
  /\ run = NoRun
  /\ sent = <<>>
  /\ last = Last("init", NoName, "", TRUE, FALSE, "none", "none", <<>>, -1)
  /\ drops = 0
  /\ runs = 0
  /\ cmds = 0
  /\ faults = 0

\* ----------------------------------------------------------------- actions
\* The operator copies an archive into the staging directory, replacing a
\* file of the same name.
Drop(a) ==
  /\ pc = "idle"
  /\ drops < MaxDrops
  /\ staging' = {b \in staging : FileName(b) # FileName(a)} \cup {a}
  /\ drops' = drops + 1
  /\ last' = Last("drop", FileName(a), a.id, TRUE, FALSE, "none", "none", <<>>, -1)
  /\ sent' = <<>>
  /\ UNCHANGED <<scratch, behavior_packs, resource_packs, world_behavior_packs,
                 world_resource_packs, enabled_packs, enable_json, pc, queue,
                 run, runs, cmds, faults>>

\* glob("*.mcaddon") followed by glob("*.mcpack"), each in directory order.
ScanOrders ==
  LET names(ext) == {FileName(a) : a \in {b \in staging : b.ext = ext}}
  IN {o1 \o o2 : o1 \in Orders(names("mcaddon")), o2 \in Orders(names("mcpack"))}

\* process_addon_files up to its loops (lines 343-355), entered from
\* on_enable (after load_enable_json) or from handle_reload_packs.
StartRun(trigger) ==
  /\ pc = "idle"
  /\ runs < MaxRuns
  /\ runs' = runs + 1
  /\ enabled_packs' = IF trigger = "enable" THEN load_enable_json(enable_json)
                      ELSE enabled_packs
  /\ last' = Last(trigger, NoName, "", TRUE, FALSE, "none", "none", <<>>, -1)
  /\ IF staging = {}
     THEN /\ pc' = "idle"
          /\ queue' = <<>>
          /\ run' = [NoRun EXCEPT !.trigger = trigger]
          /\ sent' = IF trigger = "reload"
                     THEN <<Msg("reload_start", <<>>), Msg("reload_done_restart", <<>>)>>
                     ELSE <<>>
     ELSE /\ pc' = "run"
          /\ queue' \in ScanOrders
          /\ run' = [NoRun EXCEPT !.trigger = trigger,
                                  !.discovered = {FileName(a) : a \in staging}]
          /\ sent' = IF trigger = "reload" THEN <<Msg("reload_start", <<>>)>>
                     ELSE <<>>
  /\ UNCHANGED <<staging, scratch, behavior_packs, resource_packs,
                 world_behavior_packs, world_resource_packs, enable_json,
                 drops, cmds, faults>>

on_enable == StartRun("enable")

handle_reload_packs == StartRun("reload")

\* An I/O fault is met only while the fault budget lasts.
Faulty(flt, none) ==
  /\ flt # none => faults < MaxFaults
  /\ faults' = IF flt # none THEN faults + 1 ELSE faults

\* Mutant of AfterItem: an archive that raises ends the run.
AfterItem_abort(name, r) ==
  /\ queue' = IF r.raised THEN <<>> ELSE Tail(queue)
  /\ IF Tail(queue) = <<>> \/ r.raised
     THEN /\ pc' = "idle"
          /\ run' = [run EXCEPT !.attempted = @ \cup {name},
                                !.failed = IF r.raised THEN @ \cup {name} ELSE @,
                                !.warnings = @ + 1]
          /\ sent' = IF run.trigger = "reload"
                     THEN Append(sent, Msg("reload_done_restart", <<>>))
                     ELSE sent
     ELSE /\ pc' = "run"
          /\ run' = [run EXCEPT !.attempted = @ \cup {name},
                                !.failed = IF r.raised THEN @ \cup {name} ELSE @]
          /\ sent' = sent
  /\ UNCHANGED <<drops, runs, cmds>>

\* The end of process_addon_files once the loops are done (lines 365-366)
\* and of handle_reload_packs (lines 240-241).
AfterItem(name, r) ==
  /\ queue' = Tail(queue)
  /\ IF Tail(queue) = <<>>
     THEN /\ pc' = "idle"
          /\ run' = [run EXCEPT !.attempted = @ \cup {name},
                                !.failed = IF r.raised THEN @ \cup {name} ELSE @,
                                !.warnings = @ + 1]
          /\ sent' = IF run.trigger = "reload"
                     THEN Append(sent, Msg("reload_done_restart", <<>>))
                     ELSE sent
     ELSE /\ pc' = "run"
          /\ run' = [run EXCEPT !.attempted = @ \cup {name},
                                !.failed = IF r.raised THEN @ \cup {name} ELSE @]
          /\ sent' = sent
  /\ UNCHANGED <<drops, runs, cmds>>

Archive(name) == CHOOSE a \in staging : FileName(a) = name

\* One iteration of the loop at lines 358-359.
ProcessMcaddon ==
  /\ pc = "run"
  /\ queue # <<>>
  /\ Head(queue)[2] = "mcaddon"
  /\ LET a == Archive(Head(queue))
     IN \E flt \in InstallFaults, order \in Orders(ExtractedItems(Cur, a)) :
          \E r \in {process_mcaddon(Cur, a, flt, order)} :
             /\ Faulty(flt, NoInstallFault)
             /\ Becomes(r.S)
             /\ AfterItem(FileName(a), r)
             /\ last' = Last("mcaddon", FileName(a), a.id, flt = NoInstallFault,
                             r.raised, r.stage, r.save, <<>>, -1)

\* One iteration of the loop at lines 362-363.
ProcessMcpack ==
  /\ pc = "run"
  /\ queue # <<>>
  /\ Head(queue)[2] = "mcpack"
  /\ LET a == Archive(Head(queue))
     IN \E flt \in InstallFaults :
          \E r \in {process_mcpack(Cur, a, flt)} :
             /\ Faulty(flt, NoInstallFault)
             /\ Becomes(r.S)
             /\ AfterItem(FileName(a), r)
             /\ last' = Last("mcpack", FileName(a), a.id, flt = NoInstallFault,
                             r.raised, r.stage, r.save, <<>>, -1)

\* /deleaddon <index>
DeleAddon(args, flt) ==
  /\ pc = "idle"
  /\ \E r \in {handle_dele_addon(Cur, args, flt)} :
        /\ r.index >= 0 => cmds < MaxCmds
        /\ r.index < 0 => flt = NoRemoveFault
        /\ cmds' = IF r.index >= 0 THEN cmds + 1 ELSE cmds
        /\ Faulty(flt, NoRemoveFault)
        /\ Becomes(r.S)
        /\ sent' = r.sent
        /\ last' = Last("deleaddon", NoName, "", flt = NoRemoveFault, r.raised,
                        r.stage, r.save, args, r.index)
  /\ UNCHANGED <<pc, queue, run, drops, runs>>

\* /delepack <index>
DelePack(args, flt) ==
  /\ pc = "idle"
  /\ \E r \in {handle_dele_pack(Cur, args, flt)} :
        /\ r.index >= 0 => cmds < MaxCmds
        /\ r.index < 0 => flt = NoRemoveFault
        /\ cmds' = IF r.index >= 0 THEN cmds + 1 ELSE cmds
        /\ Faulty(flt, NoRemoveFault)
        /\ Becomes(r.S)
        /\ sent' = r.sent
        /\ last' = Last("delepack", NoName, "", flt = NoRemoveFault, r.raised,
                        r.stage, r.save, args, r.index)
  /\ UNCHANGED <<pc, queue, run, drops, runs>>

Next ==
  \/ \E a \in Archives : Drop(a)
  \/ on_enable
  \/ handle_reload_packs
  \/ ProcessMcaddon
  \/ ProcessMcpack
  \/ \E args \in IndexArgs, flt \in RemoveFaults : DeleAddon(args, flt)
  \/ \E args \in IndexArgs, flt \in RemoveFaults : DelePack(args, flt)

Spec == Init /\ [][Next]_vars

\* The same program with every kind of command argument and fewer archives.
ArgsArchives == {P1, A1}

NextArgs ==
  \/ \E a \in ArgsArchives : Drop(a)
  \/ on_enable
  \/ handle_reload_packs
  \/ ProcessMcaddon
  \/ ProcessMcpack
  \/ \E args \in ArgLists, flt \in RemoveFaults : DeleAddon(args, flt)
  \/ \E args \in ArgLists, flt \in RemoveFaults : DelePack(args, flt)

SpecArgs == Init /\ [][NextArgs]_vars

\* ------------------------------------------------ with the list commands
ListFrame(op) ==
  /\ pc = "idle"
  /\ last' = Last(op, NoName, "", TRUE, FALSE, "none", "skipped", <<>>, -1)
  /\ UNCHANGED <<staging, scratch, behavior_packs, resource_packs,
                 world_behavior_packs, world_resource_packs, enabled_packs,
                 enable_json, pc, queue, run, drops, runs, cmds, faults>>

\* /addonlist
AddonList ==
  /\ sent' = handle_addon_list(Cur)
  /\ ListFrame("addonlist")

\* /packlist
PackList ==
  /\ sent' = handle_pack_list(Cur)
  /\ ListFrame("packlist")

\* The archives dropped where the list commands are used: two standalone
\* packs and two bundles with different names, one bundle with two Resource
\* subdirectories.
ListArchives == {P1, P4, A1, A3}

NextList ==
  \/ \E a \in ListArchives : Drop(a)
  \/ on_enable
  \/ handle_reload_packs
  \/ ProcessMcaddon
  \/ ProcessMcpack
  \/ \E args \in IndexArgs, flt \in RemoveFaults : DeleAddon(args, flt)
  \/ \E args \in IndexArgs, flt \in RemoveFaults : DelePack(args, flt)
  \/ AddonList
  \/ PackList

SpecList == Init /\ [][NextList]_vars

\* ------------------------------------------- the ledger store on any ledger
\* save_enable_json and load_enable_json applied to ledgers whose strings
\* hold encodable characters (ASCII or not) and unpaired surrogates.
MaxLedger == 2

LedgerStrings == {<<"a">>, <<"é", Surrogate>>, <<Surrogate, "b">>}

LedgerFolders == {<<"F">>, <<"G", Surrogate>>}

LedgerAddons ==
  [name : LedgerStrings, type : {"addon"}]
  \cup [name : LedgerStrings, type : {"addon"},
        resource_folder : LedgerFolders, resource_uuid : {<<"1">>}]

LedgerPacks ==
  [name : LedgerStrings, folder : LedgerFolders, uuid : {<<"1">>},
   type : {"behavior", ""}]

Ledgers ==
  [addons : UNION {[1..k -> LedgerAddons] : k \in 0..MaxLedger},
   packs : UNION {[1..k -> LedgerPacks] : k \in 0..1}]

InitLedger ==
  /\ staging = {}
  /\ scratch = NoDirs
  /\ behavior_packs = NoDirs
  /\ resource_packs = NoDirs
  /\ world_behavior_packs = AbsentFile
  /\ world_resource_packs = AbsentFile
  /\ enabled_packs \in Ledgers
  /\ enable_json \in {AbsentLedger, CorruptLedger}
  /\ pc = "idle"
  /\ queue = <<>>
  /\ run = NoRun
  /\ sent = <<>>
  /\ last = Last("init", NoName, "", TRUE, FALSE, "none", "none", <<>>, -1)
  /\ drops = 0
  /\ runs = 0
  /\ cmds = 0
  /\ faults = 0

LedgerFrame(op, w) ==
  /\ last' = Last(op, NoName, "", w = "none", FALSE, "none", w, <<>>, -1)
  /\ UNCHANGED <<staging, scratch, behavior_packs, resource_packs,
                 world_behavior_packs, world_resource_packs, pc, queue, run,
                 sent, drops, runs, cmds, faults>>

Save(w) ==
  /\ enable_json' = save_enable_json(enabled_packs, enable_json, w)
  /\ UNCHANGED enabled_packs
  /\ LedgerFrame("save", w)

Load ==
  /\ enabled_packs' = load_enable_json(enable_json)
  /\ UNCHANGED enable_json
  /\ LedgerFrame("load", "none")

NextLedger ==
  \/ \E w \in WriteFaults : Save(w)
  \/ Load

SpecLedger == InitLedger /\ [][NextLedger]_vars

\* ----------------------------------------------- the registry on any table
\* activate and deactivate applied to activation files of every content:
\* absent, unparsable, or a list of up to MaxTable entries, duplicates
\* included.
MaxTable == 3

RegIds == {<<"1">>, <<"2">>}

RegVersions == {<<1, 0, 0>>, <<2, 0, 0>>}

RegEntries == [pack_id : RegIds, version : RegVersions]

RegLists(n) == UNION {[1..k -> RegEntries] : k \in 0..n}

RegTables(n) == {AbsentFile, CorruptFile} \cup {ListFile(l) : l \in RegLists(n)}

InitRegistry ==
  /\ staging = {}
  /\ scratch = NoDirs
  /\ behavior_packs = NoDirs
  /\ resource_packs = NoDirs
  /\ world_behavior_packs \in RegTables(MaxTable)
  /\ world_resource_packs \in RegTables(1)
  /\ enabled_packs = EmptyLedger
  /\ enable_json = AbsentLedger
  /\ pc = "idle"
  /\ queue = <<>>
  /\ run = NoRun
  /\ sent = <<>>
  /\ last = Last("init", NoName, "", TRUE, FALSE, "none", "none", <<>>, -1)
  /\ drops = 0
  /\ runs = 0
  /\ cmds = 0
  /\ faults = 0

\* last'.args holds the id; last'.index the major version number of an
\* activation, or the number of entries a deactivation found.
RegFrame(op, pack_uuid, major, w) ==
  /\ last' = Last(op, NoName, "", w = "none", FALSE, "none", "skipped",
                  <<pack_uuid>>, major)
  /\ UNCHANGED <<staging, scratch, behavior_packs, resource_packs,
                 enabled_packs, enable_json, pc, queue, run, sent, drops,
                 runs, cmds, faults>>

ActivateBehavior(pack_uuid, pack_version, w) ==
  /\ world_behavior_packs' =
       activate_behavior_pack(world_behavior_packs, pack_uuid, pack_version, w)
  /\ UNCHANGED world_resource_packs
  /\ RegFrame("activate_behavior", pack_uuid, pack_version[1], w)

ActivateResource(pack_uuid, pack_version, w) ==
  /\ world_resource_packs' =
       activate_resource_pack(world_resource_packs, pack_uuid, pack_version, w)
  /\ UNCHANGED world_behavior_packs
  /\ RegFrame("activate_resource", pack_uuid, pack_version[1], w)

DeactivateBehavior(pack_uuid, w) ==
  /\ world_behavior_packs' =
       deactivate_behavior_pack(world_behavior_packs, pack_uuid, w)
  /\ UNCHANGED world_resource_packs
  /\ RegFrame("deactivate_behavior", pack_uuid, Len(world_behavior_packs.list), w)

DeactivateResource(pack_uuid, w) ==
  /\ world_resource_packs' =
       deactivate_resource_pack(world_resource_packs, pack_uuid, w)
  /\ UNCHANGED world_behavior_packs
  /\ RegFrame("deactivate_resource", pack_uuid, Len(world_resource_packs.list), w)

NextRegistry ==
  \/ \E u \in RegIds, v \in RegVersions, w \in WriteFaults : ActivateBehavior(u, v, w)
  \/ \E u \in RegIds, v \in RegVersions, w \in WriteFaults : ActivateResource(u, v, w)
  \/ \E u \in RegIds, w \in WriteFaults : DeactivateBehavior(u, w)
  \/ \E u \in RegIds, w \in WriteFaults : DeactivateResource(u, w)

SpecRegistry == InitRegistry /\ [][NextRegistry]_vars

\* ------------------------------------------------------------- properties
\* Steps of the installer loop and of the removal commands, recognised from
\* the state they start in and the handler recorded in last'.
McpackStep == pc = "run" /\ queue # <<>> /\ Head(queue)[2] = "mcpack"

McaddonStep == pc = "run" /\ queue # <<>> /\ Head(queue)[2] = "mcaddon"

Current == Archive(Head(queue))

\* The descriptor a standalone-pack archive carries at its root.
Declares(a, mtype) ==
  /\ a.root.man # {}
  /\ TheManifest(a.root).parse
  /\ "type" \in TheManifest(a.root).has
  /\ TheManifest(a.root).mtype = mtype

DeclaredId(a) == TheManifest(a.root).uuid

DeclaredVersion(a) ==
  IF "version" \in TheManifest(a.root).has THEN TheManifest(a.root).version
  ELSE <<1, 0, 0>>

IdCount(t, u) == Cardinality({i \in 1..Len(t.list) : t.list[i].pack_id = u})

VersionsOf(t, u) == {t.list[i].version : i \in {j \in 1..Len(t.list) : t.list[j].pack_id = u}}

\* C1: activate is idempotent by id. Installing a standalone pack whose id
\* is already present in the table of its kind leaves that table unchanged,
\* whatever version the pack declares; a first activation that meets no
\* fault, into a table that has no entry for the id, leaves exactly one, so
\* after two activations of an id the table holds one entry with the version
\* the first activation stored.
C1_ActivateIdempotent ==
  [][McpackStep =>
       /\ (Declares(Current, "data") /\ world_behavior_packs.st # "corrupt")
            => IF HasId(world_behavior_packs.list, DeclaredId(Current))
               THEN world_behavior_packs' = world_behavior_packs
               ELSE last'.clean
                      => IdCount(world_behavior_packs', DeclaredId(Current)) = 1
       /\ (Declares(Current, "resources") /\ world_resource_packs.st # "corrupt")
            => IF HasId(world_resource_packs.list, DeclaredId(Current))
               THEN world_resource_packs' = world_resource_packs
               ELSE last'.clean
                      => IdCount(world_resource_packs', DeclaredId(Current)) = 1
  ]_vars

\* C1 witness: P1 (id 1, version 1.2.0) was installed after the bundle A1
\* had activated id 1 with version 2.0.0: one entry, still version 2.0.0.
C1_Witness ==
  /\ last.op = "mcpack" /\ last.arch = "P1" /\ ~last.raised /\ last.clean
  /\ world_behavior_packs.st = "ok"
  /\ IdCount(world_behavior_packs, <<"1">>) = 1
  /\ VersionsOf(world_behavior_packs, <<"1">>) = {<<2, 0, 0>>}
  /\ \E i \in 1..Len(enabled_packs.addons) :
       "behavior_uuid" \in DOMAIN enabled_packs.addons[i]
       /\ enabled_packs.addons[i].behavior_uuid = <<"1">>

\* The 1-based index an argument list names (0: none).
IndexNamed(args) ==
  IF args = <<>> THEN 0
  ELSE IF args[1] \in {<<"1">>, <<"0", "1">>} THEN 1
  ELSE IF args[1] = <<"2">> THEN 2
  ELSE IF args[1] = <<"3">> THEN 3
  ELSE 0

RemoveAt(l, j) == SubSeq(l, 1, j - 1) \o SubSeq(l, j + 1, Len(l))

\* The table t without the entries of the ids in ids.
Without(t, ids) ==
  LET Kept(pack) == pack.pack_id \notin ids
  IN IF t.st = "ok" THEN ListFile(SelectSeq(t.list, Kept)) ELSE t

BehaviorIds(e) == IF "behavior_uuid" \in DOMAIN e THEN {e.behavior_uuid} ELSE {}

ResourceIds(e) == IF "resource_uuid" \in DOMAIN e THEN {e.resource_uuid} ELSE {}

\* A removal command whose argument names an entry of the sequence l.
RemovalOf(op, l) ==
  /\ pc = "idle"
  /\ last'.op = op
  /\ 1 <= IndexNamed(last'.args)
  /\ IndexNamed(last'.args) <= Len(l)

\* C2: removing a bundle or a standalone pack by a valid 1-based index, when
\* no I/O fault is met, shortens that ledger sequence by exactly one entry
\* (the entry named, all others stay in place, the other sequence is
\* untouched) and removes from each activation table exactly the entries
\* whose id the removed entry references for that table.
C2_RemoveByIndex ==
  [][/\ (RemovalOf("deleaddon", enabled_packs.addons) /\ last'.clean)
          => LET e == enabled_packs.addons[IndexNamed(last'.args)]
             IN /\ Len(enabled_packs'.addons) = Len(enabled_packs.addons) - 1
                /\ \E j \in 1..Len(enabled_packs.addons) :
                     /\ enabled_packs.addons[j] = e
                     /\ enabled_packs'.addons = RemoveAt(enabled_packs.addons, j)
                /\ enabled_packs'.packs = enabled_packs.packs
                /\ world_behavior_packs' = Without(world_behavior_packs, BehaviorIds(e))
                /\ world_resource_packs' = Without(world_resource_packs, ResourceIds(e))
     /\ (RemovalOf("delepack", enabled_packs.packs) /\ last'.clean)
          => LET e == enabled_packs.packs[IndexNamed(last'.args)]
             IN /\ Len(enabled_packs'.packs) = Len(enabled_packs.packs) - 1
                /\ \E j \in 1..Len(enabled_packs.packs) :
                     /\ enabled_packs.packs[j] = e
                     /\ enabled_packs'.packs = RemoveAt(enabled_packs.packs, j)
                /\ enabled_packs'.addons = enabled_packs.addons
                /\ world_behavior_packs' =
                     Without(world_behavior_packs,
                             IF e.type = "behavior" THEN {e.uuid} ELSE {})
                /\ world_resource_packs' =
                     Without(world_resource_packs,
                             IF e.type = "resource" THEN {e.uuid} ELSE {})
  ]_vars

\* C2 witness: the first bundle was removed without a fault while a
\* standalone pack stays recorded and its id stays activated.
C2_Witness ==
  /\ last.op = "deleaddon" /\ last.index = 0 /\ last.clean /\ ~last.raised
  /\ enabled_packs.addons = <<>>
  /\ Len(enabled_packs.packs) = 1
  /\ world_resource_packs.st = "ok"
  /\ HasId(world_resource_packs.list, enabled_packs.packs[1].uuid)

\* The ways an argument list fails to name an entry of a sequence of n
\* entries.
ArgMissing(args) == args = <<>>

ArgNonNumeric(args) == args # <<>> /\ args[1] \in {<<"1", "x">>}

ArgOutOfRange(args, n) ==
  /\ args # <<>>
  /\ \/ args[1] \in {<<"0">>, <<"-", "1">>}
     \/ IndexNamed(args) > n

\* C3: a removal command whose index is missing, non-numeric, 0, negative
\* or greater than the length of its sequence changes neither the ledger in
\* memory, nor enable.json, nor the activation tables, nor the pack
\* directories, and answers with the matching user-error message.
C3_InvalidIndexNoChange ==
  [][\A op \in {"deleaddon", "delepack"} :
       LET n == IF op = "deleaddon" THEN Len(enabled_packs.addons)
                ELSE Len(enabled_packs.packs)
           args == last'.args
       IN (pc = "idle" /\ last'.op = op
           /\ (ArgMissing(args) \/ ArgNonNumeric(args) \/ ArgOutOfRange(args, n)))
          => /\ UNCHANGED <<enabled_packs, enable_json, world_behavior_packs,
                            world_resource_packs, behavior_packs,
                            resource_packs, staging, scratch>>
             /\ sent' = <<Msg(IF ArgMissing(args) THEN "specify_index"
                              ELSE IF ArgNonNumeric(args) THEN "not_a_number"
                              ELSE "invalid_index", <<>>)>>
  ]_vars

\* C3 witness: /deleaddon 0 was answered with the invalid-index message
\* while a bundle is recorded.
C3_Witness ==
  /\ last.op = "deleaddon"
  /\ last.args = << <<"0">> >>
  /\ Len(enabled_packs.addons) >= 1
  /\ sent = <<Msg("invalid_index", <<>>)>>

\* C4: in every reachable state, each folder a ledger entry references
\* exists in the permanent pack directory of its kind.
C4_LedgerFoldersExist ==
  /\ \A i \in 1..Len(enabled_packs.addons) :
       LET e == enabled_packs.addons[i]
       IN /\ "behavior_folder" \in DOMAIN e
               => e.behavior_folder \in DOMAIN behavior_packs
          /\ "resource_folder" \in DOMAIN e
               => e.resource_folder \in DOMAIN resource_packs
  /\ \A i \in 1..Len(enabled_packs.packs) :
       LET e == enabled_packs.packs[i]
       IN /\ e.type = "behavior" => e.folder \in DOMAIN behavior_packs
          /\ e.type = "resource" => e.folder \in DOMAIN resource_packs

\* A standalone-pack archive whose root descriptor is absent, unreadable or
\* of a kind other than "data" and "resources".
Unclassifiable(a) == ~Declares(a, "data") /\ ~Declares(a, "resources")

\* C5: processing a standalone-pack archive whose root descriptor is absent,
\* unreadable or of another kind, with no descriptor left in its scratch
\* directory and no I/O fault, copies nothing into a pack directory,
\* activates nothing, leaves ledger.packs as it is and removes the archive
\* and its scratch directory.
C5_UnclassifiableSkipped ==
  [][(/\ McpackStep
      /\ Unclassifiable(Current)
      /\ Current.stem \notin DOMAIN scratch
      /\ last'.clean)
       => /\ UNCHANGED <<behavior_packs, resource_packs, world_behavior_packs,
                         world_resource_packs>>
          /\ enabled_packs'.packs = enabled_packs.packs
          /\ Current \notin staging'
          /\ Current.stem \notin DOMAIN scratch'
  ]_vars

\* C6: once a run has finished, no scratch subdirectory of an archive that
\* failed in it remains.
C6_FailedScratchCleaned ==
  pc = "idle" => \A n \in run.failed : n[1] \notin DOMAIN scratch

\* The folder k of the directory dir holds the files and the descriptor of
\* tree.
Holds(dir, k, tree) ==
  /\ k \in DOMAIN dir
  /\ tree.files \subseteq dir[k].files
  /\ tree.man \subseteq dir[k].man

\* The subdirectories of a bundle archive that carry a descriptor of kind
\* mtype.
SubsOf(a, mtype) ==
  {sub \in a.root.subs :
     /\ sub.man # {}
     /\ TheManifest(sub).parse
     /\ "type" \in TheManifest(sub).has
     /\ TheManifest(sub).mtype = mtype}

\* The bundle archives come before the standalone-pack archives.
BundlesFirst(q) ==
  \A i, j \in 1..Len(q) : (i < j /\ q[i][2] = "mcpack") => q[j][2] = "mcpack"

\* C7: an installer run attempts every archive it discovered, bundle
\* archives first, whether or not earlier ones failed: each loop iteration
\* takes the next archive, and the run ends only when all are attempted. An
\* archive that does not raise is removed from staging; when it is
\* classifiable its folders are in the permanent directories and one entry
\* is appended to its ledger sequence.
C7_RunContinues ==
  [][(pc = "run" /\ queue # <<>>)
       => /\ BundlesFirst(queue)
          /\ queue' = Tail(queue)
          /\ last'.name = Head(queue)
          /\ run'.attempted = run.attempted \cup {Head(queue)}
          /\ run'.discovered = run.discovered
          /\ pc' = "idle" <=> queue' = <<>>
          /\ pc' = "idle" => run'.attempted = run'.discovered
          /\ ~last'.raised
               => /\ Current \notin staging'
                  /\ (McpackStep /\ Declares(Current, "data"))
                       => /\ Holds(behavior_packs', Current.stem, Current.root)
                          /\ Len(enabled_packs'.packs) = Len(enabled_packs.packs) + 1
                  /\ (McpackStep /\ Declares(Current, "resources"))
                       => /\ Holds(resource_packs', Current.stem, Current.root)
                          /\ Len(enabled_packs'.packs) = Len(enabled_packs.packs) + 1
                  /\ McaddonStep
                       => /\ \A sub \in SubsOf(Current, "data") :
                               Holds(behavior_packs', sub.name, SubTree(sub))
                          /\ \A sub \in SubsOf(Current, "resources") :
                               Holds(resource_packs', sub.name, SubTree(sub))
                          /\ Len(enabled_packs'.addons) = Len(enabled_packs.addons) + 1
  ]_vars

\* C7 witness: a run has ended in which the bundle archive failed and the
\* standalone pack P3, processed after it, is installed, recorded and gone
\* from staging.
C7_Witness ==
  /\ pc = "idle"
  /\ run.failed = {<<sF, "mcaddon">>}
  /\ run.attempted = {<<sF, "mcaddon">>, <<sG, "mcpack">>}
  /\ last.op = "mcpack" /\ last.arch = "P3" /\ ~last.raised
  /\ Holds(resource_packs, sG, P3.root)
  /\ Len(enabled_packs.packs) = 1 /\ enabled_packs.packs[1].folder = sG
  /\ P3 \notin staging

\* The table activate leaves when it starts from an empty list.
OnlyEntry(a) ==
  ListFile(<<[pack_id |-> DeclaredId(a), version |-> DeclaredVersion(a)]>>)

\* C8: activate treats an absent or unparsable activation file as an empty
\* list. When a standalone pack is installed without an I/O fault while the
\* table of its kind is absent or unparsable, the table afterwards is valid
\* and consists of exactly the one new entry {id, version}.
C8_UnreadableAsEmpty ==
  [][(McpackStep /\ last'.clean)
       => /\ (Declares(Current, "data")
              /\ world_behavior_packs.st \in {"absent", "corrupt"})
               => world_behavior_packs' = OnlyEntry(Current)
          /\ (Declares(Current, "resources")
              /\ world_resource_packs.st \in {"absent", "corrupt"})
               => world_resource_packs' = OnlyEntry(Current)
  ]_vars

\* What installing the standalone pack a of the kind (type in the ledger)
\* kind leaves: the folder in dir, the id in the table t, one more entry in
\* ledger.packs, persisted, and the archive gone.
InstalledAs(a, kind, dir, t0, t) ==
  /\ Holds(dir, a.stem, a.root)
  /\ t.st = "ok"
  /\ HasId(t.list, DeclaredId(a))
  /\ ~HasId(t0.list, DeclaredId(a))
       => VersionsOf(t, DeclaredId(a)) = {DeclaredVersion(a)}
  /\ Len(enabled_packs'.packs) = Len(enabled_packs.packs) + 1
  /\ SubSeq(enabled_packs'.packs, 1, Len(enabled_packs.packs)) = enabled_packs.packs
  /\ LET e == enabled_packs'.packs[Len(enabled_packs'.packs)]
     IN e.folder = a.stem /\ e.uuid = DeclaredId(a) /\ e.type = kind
  /\ enable_json'.st = "ok"
  /\ enable_json'.data.packs = enabled_packs'.packs
  /\ a \notin staging'

\* C9: installing, without an I/O fault, a standalone-pack archive B.mcpack
\* that declares kind Behavior (resp. Resource), id U and version V leaves a
\* folder B with the extracted contents in behavior_packs (resp.
\* resource_packs), an entry for U in the activation table of that kind
\* (with version V if U was not there), exactly one more entry {folder B,
\* uuid U, type behavior (resp. resource)} at the end of ledger.packs, saved
\* to enable.json, and the archive out of staging.
C9_StandaloneInstall ==
  [][(McpackStep /\ last'.clean)
       => /\ Declares(Current, "data")
               => InstalledAs(Current, "behavior", behavior_packs',
                              world_behavior_packs, world_behavior_packs')
          /\ Declares(Current, "resources")
               => InstalledAs(Current, "resource", resource_packs',
                              world_resource_packs, world_resource_packs')
  ]_vars

\* A bundle archive with exactly one Behavior and one Resource
\* subdirectory.
TwoPartBundle(a) ==
  /\ Cardinality(SubsOf(a, "data")) = 1
  /\ Cardinality(SubsOf(a, "resources")) = 1
  /\ a.root.subs = SubsOf(a, "data") \cup SubsOf(a, "resources")

\* C10: installing, without an I/O fault, a bundle archive made of one
\* Behavior and one Resource subdirectory appends exactly one entry to
\* ledger.bundles; the entry names the two subdirectories and the two
\* declared ids and carries the declared package name, whatever the order
\* in which the subdirectories are visited; both ids are in their
\* activation tables afterwards.
C10_BundleInstall ==
  [][(McaddonStep /\ last'.clean /\ TwoPartBundle(Current))
       => LET b == CHOOSE sub \in SubsOf(Current, "data") : TRUE
              r == CHOOSE sub \in SubsOf(Current, "resources") : TRUE
              e == enabled_packs'.addons[Len(enabled_packs'.addons)]
          IN /\ Len(enabled_packs'.addons) = Len(enabled_packs.addons) + 1
             /\ SubSeq(enabled_packs'.addons, 1, Len(enabled_packs.addons))
                  = enabled_packs.addons
             /\ e = [name |-> clean_string(TheManifest(b).name),
                     type |-> "addon",
                     behavior_folder |-> b.name,
                     behavior_uuid |-> TheManifest(b).uuid,
                     resource_folder |-> r.name,
                     resource_uuid |-> TheManifest(r).uuid]
             /\ world_behavior_packs'.st = "ok"
             /\ HasId(world_behavior_packs'.list, TheManifest(b).uuid)
             /\ world_resource_packs'.st = "ok"
             /\ HasId(world_resource_packs'.list, TheManifest(r).uuid)
  ]_vars

\* A bundle entry names a folder of a kind exactly when it names the id of
\* that kind.
FolderIffId(e) ==
  /\ "behavior_folder" \in DOMAIN e <=> "behavior_uuid" \in DOMAIN e
  /\ "resource_folder" \in DOMAIN e <=> "resource_uuid" \in DOMAIN e

\* C11: in every reachable state every entry of ledger.bundles, in memory
\* and in enable.json, has behavior_folder exactly when it has
\* behavior_uuid, and resource_folder exactly when it has resource_uuid.
C11_FolderIffId ==
  /\ \A i \in 1..Len(enabled_packs.addons) : FolderIffId(enabled_packs.addons[i])
  /\ \A i \in 1..Len(enable_json.data.addons) : FolderIffId(enable_json.data.addons[i])

\* C11 witness: the bundle A2, which has a Resource subdirectory only, is
\* recorded with resource folder and id and without the behavior fields.
C11_Witness ==
  /\ last.op = "mcaddon" /\ last.arch = "A2" /\ ~last.raised
  /\ \E i \in 1..Len(enabled_packs.addons) :
       LET e == enabled_packs.addons[i]
       IN /\ "resource_folder" \in DOMAIN e /\ "resource_uuid" \in DOMAIN e
          /\ "behavior_folder" \notin DOMAIN e /\ "behavior_uuid" \notin DOMAIN e
          /\ e.resource_folder = <<"Q">>

\* No two entries of the table have the same id.
NoDuplicateIds(t) ==
  \A i, j \in 1..Len(t.list) : t.list[i].pack_id = t.list[j].pack_id => i = j

\* C12: id uniqueness is kept in each activation table: an activation or a
\* deactivation, with or without a write fault, takes a table without
\* duplicate ids to a table without duplicate ids.
C12_IdsStayUnique ==
  [][/\ NoDuplicateIds(world_behavior_packs) => NoDuplicateIds(world_behavior_packs')
     /\ NoDuplicateIds(world_resource_packs) => NoDuplicateIds(world_resource_packs')
  ]_vars

\* C12 witness: id 1 was activated with version 2.0.0 in a table that has
\* it with version 1.0.0 next to id 2: still one entry for each id.
C12_Witness ==
  /\ last.op = "activate_behavior" /\ last.clean
  /\ last.args = << <<"1">> >> /\ last.index = 2
  /\ world_behavior_packs =
       ListFile(<<[pack_id |-> <<"2">>, version |-> <<1, 0, 0>>],
                  [pack_id |-> <<"1">>, version |-> <<1, 0, 0>>]>>)

\* The entries of l whose id is not u, in the order of l.
RECURSIVE Others(_, _)
Others(l, u) ==
  IF l = <<>> THEN <<>>
  ELSE IF Head(l).pack_id = u THEN Others(Tail(l), u)
  ELSE <<Head(l)>> \o Others(Tail(l), u)

\* What deactivate of the id u without a write fault makes of the table t.
Deactivated(t, t1, u) ==
  /\ t.st = "absent" => t1 = t
  /\ t.st = "ok"
       => /\ t1.st = "ok"
          /\ t1.list = Others(t.list, u)
          /\ ~HasId(t1.list, u)
          /\ ~HasId(t.list, u) => t1.list = t.list

\* C13: deactivate(table, id) without a write fault removes every entry of
\* the table with that id and keeps the others in their order; when the id
\* is absent the list is unchanged and the file is still a valid list; when
\* the file does not exist it is not created; the other table is not
\* modified.
C13_DeactivateFrame ==
  [][/\ (last'.op = "deactivate_behavior" /\ last'.clean)
          => /\ Deactivated(world_behavior_packs, world_behavior_packs',
                            last'.args[1])
             /\ world_resource_packs' = world_resource_packs
     /\ (last'.op = "deactivate_resource" /\ last'.clean)
          => /\ Deactivated(world_resource_packs, world_resource_packs',
                            last'.args[1])
             /\ world_behavior_packs' = world_behavior_packs
  ]_vars

\* C13 witness: id 1 was deactivated in a behavior table of three entries
\* that held it twice; only the entry of id 2 is left and the resource file
\* still does not exist.
C13_Witness ==
  /\ last.op = "deactivate_behavior" /\ last.clean
  /\ last.args = << <<"1">> >> /\ last.index = 3
  /\ world_behavior_packs = ListFile(<<[pack_id |-> <<"2">>, version |-> <<2, 0, 0>>]>>)
  /\ world_resource_packs = AbsentFile

\* A step of process_addon_files: its start from on_enable or
\* handle_reload_packs, or one iteration of its loops.
RunStep == last'.op \in {"enable", "reload", "mcaddon", "mcpack"} /\ last' # last

\* The restart-required notices a run has emitted so far: the warning
\* process_addon_files logs and the messages of handle_reload_packs that ask
\* for a restart.
RestartNotices(r, msgs) ==
  r.warnings
  + Cardinality({i \in 1..Len(msgs) : msgs[i].text = "reload_done_restart"})

\* C14: running the installer with an empty staging directory, at startup
\* or through the reload command, changes no file or directory, does not
\* write the ledger file and emits no restart-required notice.
C14_EmptyRunQuiet ==
  [][(pc = "idle" /\ staging = {} /\ last'.op \in {"enable", "reload"})
       => /\ UNCHANGED <<staging, scratch, behavior_packs, resource_packs,
                         world_behavior_packs, world_resource_packs,
                         enable_json>>
          /\ RestartNotices(run', sent') = 0
  ]_vars

\* C17: a run that finds at least one archive emits the restart-required
\* notice exactly once, and not before every discovered archive has been
\* processed; a run that finds none does not emit it.
C17_NoticeOnce ==
  [][RunStep
       => /\ pc' = "run" => RestartNotices(run', sent') = 0
          /\ pc' = "idle"
               => /\ run'.attempted = run'.discovered
                  /\ RestartNotices(run', sent')
                       = IF run'.discovered = {} THEN 0 ELSE 1
  ]_vars

\* A step that wrote enable.json: an install or a removal that reached
\* save_enable_json, and whether the write succeeded.
SaveStep(outcomes) ==
  /\ last' # last
  /\ last'.op \in {"mcaddon", "mcpack", "deleaddon", "delepack"}
  /\ last'.save \in outcomes

\* C15: a failed write of the ledger during an install does not abort the
\* install and does not roll back memory: the archive does not raise, its
\* entry is at the end of its sequence in memory, its scratch directory and
\* the archive are removed; and every later successful save writes the
\* whole ledger in memory, that entry included.
C15_SaveFailureKept ==
  [][/\ (SaveStep({"open", "dump"}) /\ pc = "run")
          => /\ ~last'.raised
             /\ enable_json'.st = "ok" => enable_json' = enable_json
             /\ McaddonStep
                  => /\ Len(enabled_packs'.addons) = Len(enabled_packs.addons) + 1
                     /\ SubSeq(enabled_packs'.addons, 1, Len(enabled_packs.addons))
                          = enabled_packs.addons
                     /\ enabled_packs'.packs = enabled_packs.packs
             /\ McpackStep
                  => /\ Len(enabled_packs'.packs) = Len(enabled_packs.packs) + 1
                     /\ SubSeq(enabled_packs'.packs, 1, Len(enabled_packs.packs))
                          = enabled_packs.packs
                     /\ enabled_packs'.addons = enabled_packs.addons
             /\ Current.stem \notin DOMAIN scratch'
             /\ Current \notin staging'
     /\ (SaveStep({"none"}) /\ ~last'.raised)
          => /\ enable_json'.st = "ok"
             /\ enable_json'.data = enabled_packs'
  ]_vars

\* C15 witness: in one run the save after the bundle A1 failed and the
\* standalone pack P3 was then installed without a fault: enable.json holds
\* the bundle entry and the pack entry, and nothing is left in scratch or
\* staging.
C15_Witness ==
  /\ pc = "idle" /\ runs = 1 /\ faults = 1
  /\ run.attempted = {<<sF, "mcaddon">>, <<sG, "mcpack">>} /\ run.failed = {}
  /\ last.op = "mcpack" /\ last.arch = "P3" /\ last.clean /\ last.save = "none"
  /\ staging = {} /\ scratch = NoDirs
  /\ HasId(world_behavior_packs.list, <<"1">>)
  /\ HasId(world_resource_packs.list, <<"2">>)
  /\ enable_json.st = "ok"
  /\ Len(enable_json.data.addons) = 1
  /\ enable_json.data.addons[1].behavior_folder = <<"B">>
  /\ Len(enable_json.data.packs) = 1

\* The string text without its unencodable characters.
RECURSIVE Kept(_)
Kept(text) ==
  IF text = <<>> THEN <<>>
  ELSE IF Head(text) = Surrogate THEN Kept(Tail(text))
  ELSE <<Head(text)>> \o Kept(Tail(text))

\* The sequence l1 has the entries of l in the same order, each with the
\* same fields, the strings without their unencodable characters.
SameEntries(l, l1) ==
  /\ Len(l1) = Len(l)
  /\ \A i \in 1..Len(l) :
       /\ DOMAIN l1[i] = DOMAIN l[i]
       /\ \A k \in DOMAIN l[i] :
            l1[i][k] = IF k = "type" THEN l[i][k] ELSE Kept(l[i][k])

Appended(l, l1) == Len(l1) = Len(l) + 1 /\ SubSeq(l1, 1, Len(l)) = l

\* The sequence l1 is l, or l without one of its entries.
AtMostOneRemoved(l, l1) == l1 = l \/ \E j \in 1..Len(l) : l1 = RemoveAt(l, j)

\* A removal command with a valid index k, given right after the list
\* command listOp has shown the sequence l, and meeting no fault.
RemovalAfterList(op, listOp, l) ==
  /\ RemovalOf(op, l)
  /\ last'.clean
  /\ last.op = listOp

Classified(a) == SubsOf(a, "data") \cup SubsOf(a, "resources")

DeclaredNames(a) == {clean_string(TheManifest(sub).name) : sub \in Classified(a)}

\* C19: the name of a bundle entry is the declared name of the first
\* classified sub-package visited and no later one overwrites it. Installed
\* without a fault from a clean scratch directory, a bundle with classified
\* sub-packages is named after one of them, and a bundle whose only
\* classified sub-package is a Resource pack is named after that pack.
C19_FirstNameWins ==
  [][(/\ McaddonStep
      /\ last'.clean
      /\ Current.stem \notin DOMAIN scratch
      /\ Classified(Current) # {})
       => LET e == enabled_packs'.addons[Len(enabled_packs'.addons)]
          IN /\ Appended(enabled_packs.addons, enabled_packs'.addons)
             /\ e.name \in DeclaredNames(Current)
  ]_vars

\* C20: install followed by removal is a round trip. From the empty initial
\* state, once one bundle archive has been dropped and installed and its
\* entry removed, all without a fault, the pack directories, the activation
\* tables and the ledger have their content of before the install, whatever
\* the number of subdirectories of the bundle.
C20_InstallRemoveRoundTrip ==
  (/\ drops = 1 /\ runs = 1 /\ cmds = 1 /\ faults = 0
   /\ last.op = "deleaddon" /\ last.index = 0 /\ ~last.raised)
    => /\ behavior_packs = NoDirs
       /\ resource_packs = NoDirs
       /\ world_behavior_packs.list = <<>>
       /\ world_resource_packs.list = <<>>
       /\ enabled_packs = EmptyLedger
       /\ enable_json.data = EmptyLedger

\* The number of entries of the ledger L that reference the folder f of the
\* kind given by the bundle field and the standalone type.
FolderRefs(L, field, type, f) ==
  Cardinality({i \in 1..Len(L.addons) :
                 field \in DOMAIN L.addons[i] /\ L.addons[i][field] = f})
  + Cardinality({i \in 1..Len(L.packs) :
                   L.packs[i].type = type /\ L.packs[i].folder = f})

\* The folder names the ledger L mentions.
FoldersIn(L) ==
  {L.packs[i].folder : i \in 1..Len(L.packs)}
  \cup {L.addons[i].behavior_folder :
          i \in {j \in 1..Len(L.addons) : "behavior_folder" \in DOMAIN L.addons[j]}}
  \cup {L.addons[i].resource_folder :
          i \in {j \in 1..Len(L.addons) : "resource_folder" \in DOMAIN L.addons[j]}}

\* C21: no two ledger entries reference the same installed folder of the same
\* kind. As long as no I/O fault has been met, every folder of behavior_packs
\* and every folder of resource_packs is referenced by at most one entry of
\* the ledger in memory, however many times an archive of that name was
\* installed.
C21_FolderOnce ==
  faults = 0
    => \A f \in FoldersIn(enabled_packs) :
         /\ FolderRefs(enabled_packs, "behavior_folder", "behavior", f) <= 1
         /\ FolderRefs(enabled_packs, "resource_folder", "resource", f) <= 1

\* The start of an installer run (process_addon_files entered).
RunStart == pc = "idle" /\ runs' = runs + 1

\* A standalone-pack archive whose own root descriptor is readable.
Readable(a) == a.root.man # {} /\ TheManifest(a.root).parse

\* C22: an archive leaves staging only after its install effects and its
\* ledger entry are in place. An archive whose extraction or copy fails
\* raises, leaves the ledger in memory and in enable.json as they were and
\* stays in staging; an archive that leaves staging did not raise, and its
\* entry (a bundle, or a standalone pack with a readable descriptor) has been
\* appended and the save attempted; every start of a run, at startup or on
\* reload, discovers and queues every archive in staging, a failed one
\* included.
C22_DeleteAfterCommit ==
  [][/\ (pc = "run" /\ queue # <<>>)
          => /\ last'.stage \in {"extract", "copy"}
                  => /\ last'.raised
                     /\ enabled_packs' = enabled_packs
                     /\ enable_json' = enable_json
                     /\ Current \in staging'
             /\ Current \notin staging'
                  => /\ ~last'.raised
                     /\ McaddonStep
                          => /\ Appended(enabled_packs.addons, enabled_packs'.addons)
                             /\ last'.save # "skipped"
                     /\ (McpackStep /\ Readable(Current))
                          => /\ Appended(enabled_packs.packs, enabled_packs'.packs)
                             /\ last'.save # "skipped"
     /\ RunStart
          => /\ run'.discovered = {FileName(a) : a \in staging}
             /\ {queue'[i] : i \in 1..Len(queue')} = run'.discovered
             /\ staging' = staging
  ]_vars

\* C22 witness: the only archive dropped, F.mcpack, failed in the first run
\* at extraction or copy (no entry was recorded then); the run started by a
\* restart attempted it again and installed it: one entry, archive gone.
C22_Witness ==
  /\ drops = 1 /\ runs = 2 /\ cmds = 0 /\ faults = 1
  /\ run.trigger = "enable"
  /\ last.op = "mcpack" /\ last.arch = "P1" /\ last.clean /\ ~last.raised
  /\ Len(enabled_packs.packs) = 1 /\ enabled_packs.packs[1].folder = sF
  /\ enable_json.data = enabled_packs
  /\ sF \in DOMAIN behavior_packs
  /\ staging = {}

\* The messages msgs report a successful removal.
SaysDeleted(msgs) == \E i \in 1..Len(msgs) : msgs[i].text = "deleted"

\* C23: a removal command reports success only if the entry was removed
\* from the ledger. Whenever /deleaddon or /delepack answers with the
\* success message, the sequence it acted on is one entry shorter than
\* before, also when remove_addon or remove_pack failed part-way.
C23_SuccessOnlyIfRemoved ==
  [][(pc = "idle" /\ cmds' = cmds + 1 /\ SaysDeleted(sent'))
       => /\ last'.op = "deleaddon"
               => Len(enabled_packs'.addons) = Len(enabled_packs.addons) - 1
          /\ last'.op = "delepack"
               => Len(enabled_packs'.packs) = Len(enabled_packs.packs) - 1
  ]_vars

\* The folders a step has added to the directory dir.
NewFolders(dir, dir1) == DOMAIN dir1 \ DOMAIN dir

\* C24: the folder copied into the permanent pack directory contains only
\* files of the archive being installed. An install that does not raise and
\* creates a folder in behavior_packs or resource_packs leaves in it exactly
\* the tree of the archive (of the subdirectory, for a bundle), and a bundle
\* creates folders only for its own subdirectories, whatever an earlier
\* failed archive of the same base name left in the scratch directory.
C24_OnlyOwnFiles ==
  [][(pc = "run" /\ queue # <<>> /\ ~last'.raised)
       => /\ McpackStep
               => /\ \A k \in NewFolders(behavior_packs, behavior_packs') :
                       k = Current.stem /\ behavior_packs'[k] = Current.root
                  /\ \A k \in NewFolders(resource_packs, resource_packs') :
                       k = Current.stem /\ resource_packs'[k] = Current.root
          /\ McaddonStep
               => /\ \A k \in NewFolders(behavior_packs, behavior_packs') :
                       \E sub \in SubsOf(Current, "data") :
                          k = sub.name /\ behavior_packs'[k] = SubTree(sub)
                  /\ \A k \in NewFolders(resource_packs, resource_packs') :
                       \E sub \in SubsOf(Current, "resources") :
                          k = sub.name /\ resource_packs'[k] = SubTree(sub)
  ]_vars

====
